---- MODULE Spec2Model ----
(***************************************************************************)
(* The streaming response assembler of src/app/MyRuntimeProvider.tsx:      *)
(* createModelAdapter(...).run reads the chat backend's event stream chunk *)
(* by chunk, cuts it into lines, decodes every line with parseSSEData      *)
(* (src/app/utils.ts) and folds the decoded messages into contentParts,    *)
(* yielding a copy of contentParts after every message.                    *)
(*                                                                         *)
(* The wire is a sequence of units.  A unit is one byte of the stream;     *)
(* the text of a JSON object between its braces is one unit naming the     *)
(* object (followed, for a content message, by the characters of its       *)
(* text), so a chunk may end after any byte of the "data: " prefix, after  *)
(* a brace, inside a multi-byte character and before the newline.  A       *)
(* string of the program is the sequence of its units; the type tags and   *)
(* the ids of tool calls, which the program only copies and compares, are  *)
(* TLA+ strings.                                                           *)
(***************************************************************************)
EXTENDS Integers, Sequences, FiniteSets, TLC

\* Frames the backend sends in one turn.
MaxFrames == 3
\* Frames the backend sends in one turn of the byte-level specification.
MaxDecodeFrames == 2
\* Frames in one chunk when the transport delivers whole frames.
MaxChunkFrames == 2
\* Frames the backend sends in one turn of the specification with fairness.
MaxLiveFrames == 2
\* Chunks one run reads when two runs are under way.
MaxRunChunks == 2

------------------------------------------------------------------------------
(* Characters and bytes *)

NL == "\n"
CR == "\r"
SP == " "
\* A two-byte UTF-8 character and the replacement character U+FFFD.
EAcute == "U+E9"
LeadByte == "C3"
ContByte == "A9"
Replacement == "U+FFFD"

Whitespace == {SP, CR, NL, "\t"}

\* "data: "
DataPrefix == <<"d", "a", "t", "a", ":", SP>>
\* "[DONE]"
DoneToken == <<"[", "D", "O", "N", "E", "]">>

Last(s) == s[Len(s)]
Front(s) == SubSeq(s, 1, Len(s) - 1)

\* Array.prototype.concat over a sequence of sequences.
RECURSIVE Flatten(_)
Flatten(ss) == IF ss = <<>> THEN <<>> ELSE Head(ss) \o Flatten(Tail(ss))

------------------------------------------------------------------------------
(* TextDecoder: decoder.decode(value, { stream: true }) *)

\* UTF-8 decoding of the bytes after the pending ones: a two-byte character
\* for a lead byte and its continuation byte, U+FFFD for a byte out of place.
RECURSIVE Utf8(_, _, _)
Utf8(pend, bytes, out) ==
  IF bytes = <<>> THEN [chars |-> out, pending |-> pend]
  ELSE LET b == Head(bytes) IN
    IF pend = <<>>
    THEN IF b = LeadByte THEN Utf8(<<b>>, Tail(bytes), out)
         ELSE IF b = ContByte THEN Utf8(<<>>, Tail(bytes), Append(out, Replacement))
         ELSE Utf8(<<>>, Tail(bytes), Append(out, b))
    ELSE IF b = ContByte THEN Utf8(<<>>, Tail(bytes), Append(out, EAcute))
         ELSE Utf8(<<>>, bytes, Append(out, Replacement))

\* decoder.decode(value, { stream: true }): the bytes of an incomplete
\* character stay in the decoder until the next call.
DecodeStream(pend, bytes) == Utf8(pend, bytes, <<>>)

------------------------------------------------------------------------------
(* String operations used by the read loop and parseSSEData *)

\* buffer.split("\n"): the pieces between newlines, one more than newlines.
RECURSIVE SplitAcc(_, _, _)
SplitAcc(s, cur, acc) ==
  IF s = <<>> THEN Append(acc, cur)
  ELSE IF Head(s) = NL THEN SplitAcc(Tail(s), <<>>, Append(acc, cur))
  ELSE SplitAcc(Tail(s), Append(cur, Head(s)), acc)

Split(s) == SplitAcc(s, <<>>, <<>>)

RECURSIVE TrimStart(_)
TrimStart(s) ==
  IF s # <<>> /\ Head(s) \in Whitespace THEN TrimStart(Tail(s)) ELSE s

RECURSIVE TrimEnd(_)
TrimEnd(s) ==
  IF s # <<>> /\ Last(s) \in Whitespace THEN TrimEnd(Front(s)) ELSE s

\* String.prototype.trim
Trim(s) == TrimEnd(TrimStart(s))

\* String.prototype.startsWith
StartsWith(s, p) == Len(s) >= Len(p) /\ SubSeq(s, 1, Len(p)) = p

\* String.prototype.slice(n)
Slice(s, n) == SubSeq(s, n + 1, Len(s))

------------------------------------------------------------------------------
(* JSON.parse *)

\* What JSON.parse throws on a text that is no JSON value.
SyntaxError == [threw |-> "SyntaxError"]
\* {}
EmptyObject == [f \in {} |-> ""]
\* "{}"
EmptyObjectText == <<"{", "}">>

\* The text of the object a unit names.
Obj(unit) == <<"{", unit, "}">>

\* Characters a content text is written with on the wire.
TextChars == {"a", "b", EAcute, Replacement}

\* A tool call of a tool_calls message (ToolCallData).
ToolCall(id, name, arguments) ==
  [id |-> id, function |-> [name |-> name, arguments |-> arguments]]

\* The objects the units between braces name: the messages of the backend
\* (SSEMessage) and the arguments of a tool call.
JsonObject(unit) ==
  CASE unit = "thinking" -> [type |-> "thinking", text |-> <<"h", "m">>]
    [] unit = "tool_start" -> [type |-> "tool_start", tool_name |-> <<"search">>]
    [] unit = "tool_calls:2,3" ->
         [type |-> "tool_calls",
          tool_calls |-> <<ToolCall("2", <<"search">>, Obj("query:cats")),
                           [id |-> "3", function |-> [name |-> <<"search">>]]>>]
    [] unit = "tool_calls:4,5" ->
         [type |-> "tool_calls",
          tool_calls |-> <<ToolCall("4", <<"fetch">>, <<>>),
                           ToolCall("5", <<"search">>, <<"{", "query:cats">>)>>]
    [] unit = "tool_calls:" -> [type |-> "tool_calls", tool_calls |-> <<>>]
    [] unit = "tool_calls" -> [type |-> "tool_calls"]
    [] unit = "tool_result:search=R1" ->
         [type |-> "tool_result", tool_name |-> <<"search">>, result |-> <<"R1">>]
    [] unit = "tool_result:search=R2" ->
         [type |-> "tool_result", tool_name |-> <<"search">>, result |-> <<"R2">>]
    [] unit = "tool_result:search=" ->
         [type |-> "tool_result", tool_name |-> <<"search">>, result |-> <<>>]
    [] unit = "tool_result:=R1" ->
         [type |-> "tool_result", tool_name |-> <<>>, result |-> <<"R1">>]
    [] unit = "tool_error:boom" -> [type |-> "tool_error", error |-> <<"boom">>]
    [] unit = "tool_error:" -> [type |-> "tool_error"]
    [] unit = "error:E" -> [type |-> "error", error |-> <<"E">>]
    [] unit = "ping" -> [type |-> "ping"]
    [] unit = "query:cats" -> [query |-> <<"cats">>]

JsonUnits ==
  {"thinking", "tool_start", "tool_calls:2,3", "tool_calls:4,5", "tool_calls:",
   "tool_result:search=R1", "tool_result:search=R2", "tool_result:search=",
   "tool_error:boom", "tool_error:", "error:E", "ping", "query:cats",
   "tool_calls", "tool_result:=R1"}

\* JSON.parse(text): white space around the value is allowed; the value is
\* an object, written { unit } or, for a content message, { content: chars }.
JSONparse(text) ==
  LET t == Trim(text) IN
    IF Len(t) < 2 \/ Head(t) # "{" \/ Last(t) # "}" THEN SyntaxError
    ELSE LET body == SubSeq(t, 2, Len(t) - 1) IN
      IF body = <<>> THEN EmptyObject
      ELSE IF Head(body) = "content:" /\ \A i \in 2..Len(body) : body[i] \in TextChars
        THEN [type |-> "content", text |-> Tail(body)]
      ELSE IF Len(body) = 1 /\ Head(body) \in JsonUnits THEN JsonObject(Head(body))
      ELSE SyntaxError

------------------------------------------------------------------------------
(* src/app/utils.ts *)

\* The null parseSSEData returns.
Null == [null |-> TRUE]

\* parseSSEData with an empty object returned from the catch.
parseSSEDataCatchReturnsObject(line) ==
  LET trimmed == Trim(line) IN
    IF trimmed = <<>> \/ ~StartsWith(trimmed, DataPrefix) THEN Null
    ELSE LET data == Slice(trimmed, Len(DataPrefix)) IN
      IF data = DoneToken THEN [type |-> "done"]
      ELSE LET v == JSONparse(data) IN IF v = SyntaxError THEN EmptyObject ELSE v

\* parseSSEData with the prefix "data:" tested for, the space after it not.
parseSSEDataPrefixNoSpace(line) ==
  LET trimmed == Trim(line) IN
    IF trimmed = <<>> \/ ~StartsWith(trimmed, Front(DataPrefix)) THEN Null
    ELSE LET data == Trim(Slice(trimmed, Len(DataPrefix) - 1)) IN
      IF data = DoneToken THEN [type |-> "done"]
      ELSE LET v == JSONparse(data) IN IF v = SyntaxError THEN Null ELSE v

\* parseSSEData without the test for [DONE].
parseSSEDataNoDoneToken(line) ==
  LET trimmed == Trim(line) IN
    IF trimmed = <<>> \/ ~StartsWith(trimmed, DataPrefix) THEN Null
    ELSE LET v == JSONparse(Slice(trimmed, Len(DataPrefix))) IN
      IF v = SyntaxError THEN Null ELSE v

parseSSEData(line) ==
  LET trimmed == Trim(line) IN
    IF trimmed = <<>> \/ ~StartsWith(trimmed, DataPrefix) THEN Null
    ELSE LET data == Slice(trimmed, Len(DataPrefix)) IN
      IF data = DoneToken THEN [type |-> "done"]
      ELSE LET v == JSONparse(data) IN IF v = SyntaxError THEN Null ELSE v

\* A string field of a message is truthy: present and not the empty string.
Truthy(m, f) == f \in DOMAIN m /\ m[f] # <<>>

\* What fetch and reader.read() reject with when the abort signal fires: a
\* DOMException of the name AbortError.
AbortError == [instanceofError |-> TRUE, name |-> "AbortError"]
\* new Error(`API error: ...`) and new Error("No response body")
ApiError == [instanceofError |-> TRUE, name |-> "Error", message |-> "API error"]
NoBodyError == [instanceofError |-> TRUE, name |-> "Error", message |-> "No response body"]
\* What fetch and reader.read() reject with when the connection breaks.
NetworkError == [instanceofError |-> TRUE, name |-> "TypeError"]

\* Every error taken for an abort error.
isAbortErrorAnyError(e) == e.instanceofError

\* An abort error looked for under the name the signal has no error of.
isAbortErrorWrongName(e) == e.instanceofError /\ e.name = "Abort"

isAbortError(e) == e.instanceofError /\ e.name = "AbortError"

------------------------------------------------------------------------------
(* src/app/MyRuntimeProvider.tsx: the cases of the switch on message.type *)

TextPart(text) == [type |-> "text", text |-> text]

\* part.result = result on an object that may have no result field yet.
WithResult(part, result) ==
  [f \in DOMAIN part \cup {"result"} |-> IF f = "result" THEN result ELSE part[f]]

\* contentParts[i] in the 0-based indexing of the code; FALSE stands for the
\* undefined an index out of range gives.
InRange(parts, i) == i >= 0 /\ i < Len(parts)

\* case "content" with a new text part for every message.
OnContentAlwaysNew(parts, cti, m) ==
  IF Truthy(m, "text")
  THEN [parts |-> Append(parts, TextPart(m.text)), cti |-> Len(parts)]
  ELSE [parts |-> parts, cti |-> cti]

\* case "content" with currentTextIndex set after the push.
OnContentIndexAfterPush(parts, cti, m) ==
  IF Truthy(m, "text")
  THEN IF cti = -1 \/ ~InRange(parts, cti) \/ parts[cti + 1].type # "text"
       THEN [parts |-> Append(parts, TextPart(m.text)), cti |-> Len(parts) + 1]
       ELSE [parts |-> [parts EXCEPT ![cti + 1].text = @ \o m.text], cti |-> cti]
  ELSE [parts |-> parts, cti |-> cti]

\* case "content"
OnContent(parts, cti, m) ==
  IF Truthy(m, "text")
  THEN IF cti = -1 \/ ~InRange(parts, cti) \/ parts[cti + 1].type # "text"
       THEN [parts |-> Append(parts, TextPart(m.text)), cti |-> Len(parts)]
       ELSE [parts |-> [parts EXCEPT ![cti + 1].text = @ \o m.text], cti |-> cti]
  ELSE [parts |-> parts, cti |-> cti]

\* tc.function.arguments || "{}"
ArgumentsOrDefault(tc) ==
  IF "arguments" \in DOMAIN tc.function /\ tc.function.arguments # <<>>
  THEN tc.function.arguments
  ELSE EmptyObjectText

\* The for loop of case "tool_calls" run from the last tool call to the first.
RECURSIVE PushToolCallsReversed(_, _)
PushToolCallsReversed(parts, calls) ==
  IF calls = <<>> THEN [parts |-> parts, threw |-> FALSE]
  ELSE LET tc == Last(calls)
           args == JSONparse(ArgumentsOrDefault(tc))
       IN IF args = SyntaxError THEN [parts |-> parts, threw |-> TRUE]
          ELSE PushToolCallsReversed(
                 Append(parts, [type |-> "tool-call",
                                toolCallId |-> tc.id,
                                toolName |-> tc.function.name,
                                args |-> args,
                                argsText |-> ArgumentsOrDefault(tc)]),
                 Front(calls))

\* The for loop of case "tool_calls": one push per tool call, until
\* JSON.parse throws.
RECURSIVE PushToolCalls(_, _)
PushToolCalls(parts, calls) ==
  IF calls = <<>> THEN [parts |-> parts, threw |-> FALSE]
  ELSE LET tc == Head(calls)
           args == JSONparse(ArgumentsOrDefault(tc))
       IN IF args = SyntaxError THEN [parts |-> parts, threw |-> TRUE]
          ELSE PushToolCalls(
                 Append(parts, [type |-> "tool-call",
                                toolCallId |-> tc.id,
                                toolName |-> tc.function.name,
                                args |-> args,
                                argsText |-> ArgumentsOrDefault(tc)]),
                 Tail(calls))

\* case "tool_calls" with the tool calls put before the parts there are.
OnToolCallsBeforeText(parts, cti, tci, m) ==
  IF "tool_calls" \in DOMAIN m /\ Len(m.tool_calls) > 0
  THEN LET r == PushToolCalls(<<>>, m.tool_calls) IN
         [parts |-> r.parts \o parts,
          cti |-> IF r.threw THEN cti ELSE -1,
          tci |-> Len(parts),
          threw |-> r.threw]
  ELSE [parts |-> parts, cti |-> cti, tci |-> tci, threw |-> FALSE]

\* case "tool_calls" without the test of the length of the batch.
OnToolCallsNoLengthTest(parts, cti, tci, m) ==
  IF "tool_calls" \in DOMAIN m
  THEN LET r == PushToolCalls(parts, m.tool_calls) IN
         [parts |-> r.parts,
          cti |-> IF r.threw THEN cti ELSE -1,
          tci |-> Len(parts),
          threw |-> r.threw]
  ELSE [parts |-> parts, cti |-> cti, tci |-> tci, threw |-> FALSE]

\* case "tool_calls"
OnToolCalls(parts, cti, tci, m) ==
  IF "tool_calls" \in DOMAIN m /\ Len(m.tool_calls) > 0
  THEN LET r == PushToolCalls(parts, m.tool_calls) IN
         [parts |-> r.parts,
          cti |-> IF r.threw THEN cti ELSE -1,
          tci |-> Len(parts),
          threw |-> r.threw]
  ELSE [parts |-> parts, cti |-> cti, tci |-> tci, threw |-> FALSE]

\* The search for the tool-call part run from the end of the list.
LastToolCall(parts, name) ==
  LET hits == {i \in 1..Len(parts) :
                 parts[i].type = "tool-call" /\ parts[i].toolName = name}
  IN IF hits = {} THEN 0 ELSE CHOOSE i \in hits : \A j \in hits : i >= j

\* The index (1-based) of the first tool-call part of the given name, 0 if none.
FirstToolCall(parts, name) ==
  LET hits == {i \in 1..Len(parts) :
                 parts[i].type = "tool-call" /\ parts[i].toolName = name}
  IN IF hits = {} THEN 0 ELSE CHOOSE i \in hits : \A j \in hits : i <= j

\* case "tool_result" without the break of the loop: every tool-call part
\* of the name gets the result.
OnToolResultNoBreak(parts, m) ==
  IF Truthy(m, "tool_name") /\ Truthy(m, "result")
  THEN [i \in 1..Len(parts) |->
          IF parts[i].type = "tool-call" /\ parts[i].toolName = m.tool_name
          THEN WithResult(parts[i], m.result)
          ELSE parts[i]]
  ELSE parts

\* case "tool_result"
OnToolResult(parts, m) ==
  IF Truthy(m, "tool_name") /\ Truthy(m, "result")
  THEN LET i == FirstToolCall(parts, m.tool_name) IN
         IF i = 0 THEN parts
         ELSE [parts EXCEPT ![i] = WithResult(@, m.result)]
  ELSE parts

\* The notice of a tool error (the warning sign before it left out).
ErrorNotice(error) == <<"Tool Error: ">> \o error \o <<NL, NL>>

\* case "tool_error" with the notice added to the open text part, when
\* there is one.
OnToolErrorIntoOpenText(parts, cti, m) ==
  IF Truthy(m, "error")
  THEN IF InRange(parts, cti)
       THEN [parts |-> [parts EXCEPT ![cti + 1].text = @ \o ErrorNotice(m.error)],
             cti |-> cti]
       ELSE [parts |-> Append(parts, TextPart(ErrorNotice(m.error))), cti |-> cti]
  ELSE [parts |-> parts, cti |-> cti]

\* case "tool_error"
OnToolError(parts, cti, m) ==
  IF Truthy(m, "error")
  THEN [parts |-> Append(parts, TextPart(ErrorNotice(m.error))), cti |-> cti]
  ELSE [parts |-> parts, cti |-> cti]

------------------------------------------------------------------------------
(* The frames of the backend *)

ContentJson(chars) == <<"{", "content:">> \o chars \o <<"}">>
\* data: <json-object-or-[DONE]>\n
DataLine(json) == DataPrefix \o json \o <<NL>>

\* The frames of the specification of the assembler: every message type,
\* content with two texts and without one, tool calls whose arguments parse
\* and do not, two results for one tool name.
AssemblerFrames ==
  {DataLine(Obj(u)) :
     u \in {"thinking", "tool_start", "tool_calls:2,3", "tool_calls:4,5",
            "tool_result:search=R1", "tool_result:search=R2", "tool_error:boom",
            "error:E"}}
    \cup {DataLine(ContentJson(<<"a">>)), DataLine(ContentJson(<<"b">>)),
          DataLine(ContentJson(<<>>)), DataLine(DoneToken)}

\* The frames of the byte-level specification: content with a one-byte and a
\* two-byte character, [DONE], a comment line, a frame with white space
\* around it and CRLF, a frame cut short by the backend (no JSON value), a
\* message of a type the switch does not know, and a last frame without its
\* newline.
DecodeFrames ==
  {DataLine(ContentJson(<<"a">>)),
   DataLine(Obj("ping")),
   DataLine(ContentJson(<<LeadByte, ContByte>>)),
   DataLine(DoneToken),
   <<":", NL>>,
   <<SP>> \o DataPrefix \o ContentJson(<<"b">>) \o <<CR, NL>>,
   DataLine(<<"{", "content:">>),
   DataPrefix \o ContentJson(<<"b">>)}

\* The frames of the specification of the lines: a blank line, a comment, a
\* content frame as it is, with a space before the prefix, with a character
\* before the prefix and with the prefix short of its space, a frame whose
\* payload is no JSON value, and [DONE].
LineFrames ==
  {<<NL>>,
   <<":", NL>>,
   DataLine(ContentJson(<<"a">>)),
   <<SP>> \o DataLine(ContentJson(<<"b">>)),
   <<"x">> \o DataLine(ContentJson(<<"a">>)),
   <<"d", "a", "t", "a", ":">> \o ContentJson(<<"a">>) \o <<NL>>,
   DataLine(<<"{", "content:">>),
   DataLine(DoneToken)}

\* The frames of the specification of the messages without a payload: a
\* content message with the empty text, a tool_calls message with an empty
\* batch and one without a batch, a tool_result message with the empty result
\* and one with the empty tool name, a tool_error message without an error,
\* and a content message and a tool_calls message that have their payload.
EmptyFrames ==
  {DataLine(Obj(u)) :
     u \in {"tool_calls:2,3", "tool_calls:", "tool_calls", "tool_result:search=",
            "tool_result:=R1", "tool_error:"}}
    \cup {DataLine(ContentJson(<<"a">>)), DataLine(ContentJson(<<>>))}

\* The frames of the specification of the end of the stream: a content frame
\* and [DONE], each with its newline and without it.
TailFrames ==
  {DataLine(ContentJson(<<"a">>)),
   DataLine(DoneToken),
   DataPrefix \o ContentJson(<<"b">>),
   DataPrefix \o DoneToken}

\* The frames of the specification with fairness: those of the end of the
\* stream and a blank line.
LiveFrames == TailFrames \cup {<<NL>>}

------------------------------------------------------------------------------
(* State *)

VARIABLES
  pc,                \* where run is: "fetch", "read", "lines", "returned", "thrown"
  wire,              \* bytes the backend has written and the reader not yet delivered
  sent,              \* number of frames the backend has written
  pending,           \* bytes of an incomplete character inside the TextDecoder
  buffer,            \* let buffer
  lines,             \* the lines of the for loop not yet visited
  contentParts,      \* const contentParts
  currentTextIndex,  \* let currentTextIndex
  toolCallsIndex,    \* let toolCallsIndex
  yielded,           \* the contents yielded so far, each as it was when yielded
  events,            \* the messages that reached the switch so far
  received,          \* all the bytes the reader has delivered so far
  error,             \* the error the outer catch has caught, Uncaught before
  runs               \* two calls of run of one adapter: their locals and what
                     \* each has read and yielded

vars == <<pc, wire, sent, pending, buffer, lines, contentParts, currentTextIndex,
          toolCallsIndex, yielded, events, received, error, runs>>

\* The state of the one call of run the other variables are of.
oneRun == <<pc, wire, sent, pending, buffer, lines, contentParts, currentTextIndex,
            toolCallsIndex, yielded, events, received, error>>

\* The calls of run of one adapter that are under way together.
RunIds == {1, 2}

\* const decoder, let buffer, const contentParts, let currentTextIndex, let
\* toolCallsIndex as their declarations leave them.
FreshLocals ==
  [pending |-> <<>>, buffer |-> <<>>, contentParts |-> <<>>,
   currentTextIndex |-> -1, toolCallsIndex |-> -1]

transport == <<wire, sent, pending, buffer, received>>
\* The outer catch has caught nothing.
Uncaught == [caught |-> FALSE]
turn == <<contentParts, currentTextIndex, toolCallsIndex>>

Init ==
  /\ pc = "fetch"
  /\ wire = <<>>
  /\ sent = 0
  /\ pending = <<>>
  /\ buffer = <<>>
  /\ lines = <<>>
  /\ contentParts = <<>>
  /\ currentTextIndex = -1
  /\ toolCallsIndex = -1
  /\ yielded = <<>>
  /\ events = <<>>
  /\ received = <<>>
  /\ error = Uncaught
  /\ runs = [locals |-> [s \in RunIds |-> FreshLocals],
             out |-> [i \in RunIds |->
                        [pc |-> "fetch", chunks |-> <<>>, yielded |-> <<>>]]]

------------------------------------------------------------------------------
(* The request and the transport *)

\* await fetch(...) resolves with an OK response that has a body.
FetchOk ==
  /\ pc = "fetch"
  /\ pc' = "read"
  /\ UNCHANGED <<runs, error, transport, lines, turn, yielded, events>>

\* catch (error) { if (isAbortError(error)) return; throw error; }
OuterCatch(e) ==
  /\ error' = e
  /\ pc' = IF isAbortError(e) THEN "returned" ELSE "thrown"

\* fetch rejects, !response.ok, or no response.body: run throws, the outer
\* catch rethrows.
FetchFails ==
  /\ pc = "fetch"
  /\ \E e \in {NetworkError, ApiError, NoBodyError} : OuterCatch(e)
  /\ UNCHANGED <<runs, transport, lines, turn, yielded, events>>

\* The abort signal fires while fetch or reader.read() is pending: the
\* AbortError reaches the outer catch, which returns.
Abort ==
  /\ pc \in {"fetch", "read"}
  /\ OuterCatch(AbortError)
  /\ UNCHANGED <<runs, transport, lines, turn, yielded, events>>

\* reader.read() rejects with another error: the outer catch rethrows.
ReadFails ==
  /\ pc = "read"
  /\ OuterCatch(NetworkError)
  /\ UNCHANGED <<runs, transport, lines, turn, yielded, events>>

\* The backend writes one more frame.
Send(frames, max) ==
  /\ pc = "read"
  /\ sent < max
  /\ \E f \in frames : wire' = wire \o f
  /\ sent' = sent + 1
  /\ UNCHANGED <<runs, pc, pending, buffer, received, lines, turn, yielded, events, error>>

\* The lines of one chunk with buffer = decode(value) for buffer += ...: what
\* the buffer held is lost.
ChunkedBufferOverwritten(pend, buf, value) ==
  LET d == DecodeStream(pend, value)
      all == Split(d.chars)
  IN [pending |-> d.pending, lines |-> Front(all), buffer |-> Last(all)]

\* The lines of one chunk with the buffer left whole: buffer = lines.pop()
\* is not there, and the lines stay in the buffer.
ChunkedBufferKept(pend, buf, value) ==
  LET d == DecodeStream(pend, value)
      all == Split(buf \o d.chars)
  IN [pending |-> d.pending, lines |-> Front(all), buffer |-> buf \o d.chars]

\* The lines of one chunk: buffer += decode(value); lines = buffer.split("\n");
\* buffer = lines.pop() || "".
Chunked(pend, buf, value) ==
  LET d == DecodeStream(pend, value)
      all == Split(buf \o d.chars)
  IN [pending |-> d.pending, lines |-> Front(all), buffer |-> Last(all)]

\* What run does with the chunk reader.read() resolves with, up to the for
\* loop.
Deliver(value) ==
  LET c == Chunked(pending, buffer, value) IN
    /\ pending' = c.pending
    /\ buffer' = c.buffer
    /\ lines' = c.lines
    /\ pc' = IF c.lines = <<>> THEN "read" ELSE "lines"
    /\ received' = received \o value

\* reader.read() resolves with a chunk: any number of the bytes the backend
\* has written.
ReadChunk ==
  /\ pc = "read"
  /\ wire # <<>>
  /\ \E n \in 1..Len(wire) :
       /\ Deliver(SubSeq(wire, 1, n))
       /\ wire' = SubSeq(wire, n + 1, Len(wire))
  /\ UNCHANGED <<runs, sent, turn, yielded, events, error>>

\* reader.read() resolves with a chunk of whole frames: the backend writes
\* them and the transport delivers them as they are.
ReadFrames(frames, max) ==
  /\ pc = "read"
  /\ wire = <<>>
  /\ \E k \in 1..MaxChunkFrames :
       /\ sent + k <= max
       /\ \E fs \in [1..k -> frames] :
            /\ Deliver(Flatten(fs))
            /\ sent' = sent + k
  /\ UNCHANGED <<runs, wire, turn, yielded, events, error>>

\* reader.read() resolves with done and run returns without the final yield.
ReadDoneNoFinalYield ==
  /\ pc = "read"
  /\ wire = <<>>
  /\ pc' = "returned"
  /\ UNCHANGED <<runs, error, transport, lines, turn, yielded, events>>

\* reader.read() resolves with done and the loop, without its break, reads
\* on: every further read resolves with done and leaves all as it is.
ReadDoneReadsOn ==
  /\ pc = "read"
  /\ wire = <<>>
  /\ UNCHANGED vars

\* reader.read() resolves with done and what the buffer holds is taken for
\* a last line.
ReadDoneFlushesBuffer ==
  /\ pc = "read"
  /\ wire = <<>>
  /\ pc' = "returned"
  /\ LET m == parseSSEData(buffer)
         r == IF m # Null /\ "type" \in DOMAIN m /\ m.type = "content"
              THEN OnContent(contentParts, currentTextIndex, m)
              ELSE [parts |-> contentParts, cti |-> currentTextIndex]
     IN /\ events' = IF m = Null THEN events ELSE Append(events, m)
        /\ contentParts' = r.parts
        /\ currentTextIndex' = r.cti
        /\ yielded' = IF Len(r.parts) > 0 THEN Append(yielded, r.parts) ELSE yielded
  /\ UNCHANGED <<runs, error, transport, lines, toolCallsIndex>>

\* reader.read() resolves with done: the final yield, then run returns.
ReadDone ==
  /\ pc = "read"
  /\ wire = <<>>
  /\ pc' = "returned"
  /\ yielded' = IF Len(contentParts) > 0 THEN Append(yielded, contentParts) ELSE yielded
  /\ UNCHANGED <<runs, error, transport, lines, turn, events>>

------------------------------------------------------------------------------
(* The for loop over the lines of a chunk: one action per outcome of
   parseSSEData and per case of the switch *)

\* const parsed = parseSSEData(line), for the line the loop is at.
Parsed == parseSSEData(Head(lines))

\* message.type, or "undefined" for an object without it.
TypeOf(m) == IF "type" \in DOMAIN m THEN m.type ELSE "undefined"

\* The loop is at a line whose message has the given type.
At(type) == pc = "lines" /\ Parsed # Null /\ TypeOf(Parsed) = type

\* The loop goes to the next line, or back to reader.read().
NextLine ==
  /\ lines' = Tail(lines)
  /\ pc' = IF Tail(lines) = <<>> THEN "read" ELSE "lines"

\* The yield without the test of contentParts.length.
YieldAlways(parts) == Append(yielded, parts)

\* if (contentParts.length > 0) yield { content: [...contentParts] }
Yield(parts) == IF Len(parts) > 0 THEN Append(yielded, parts) ELSE yielded

\* What a consumer reads now through the k-th content it was yielded:
\* [...contentParts] copies the array and not the parts, which are pushed and
\* never taken out or put elsewhere, so the copy holds the parts that are the
\* first of contentParts, as they are now.
Retained(k) == SubSeq(contentParts, 1, Len(yielded[k]))

\* if (!parsed) continue
SkipLine ==
  /\ pc = "lines"
  /\ Parsed = Null
  /\ NextLine
  /\ UNCHANGED <<runs, error, transport, turn, yielded, events>>

\* case "thinking" with the lines 80-92 at work: the thinking text is put
\* into a text part.
ThinkingWritesText ==
  /\ At("thinking")
  /\ events' = Append(events, Parsed)
  /\ LET note == <<"*">> \o Parsed.text \o <<"*", NL, NL>> IN
       IF ~Truthy(Parsed, "text") THEN UNCHANGED <<contentParts, currentTextIndex>>
       ELSE IF currentTextIndex = -1
       THEN /\ contentParts' = Append(contentParts, TextPart(note))
            /\ currentTextIndex' = Len(contentParts)
       ELSE /\ contentParts' = [contentParts EXCEPT ![currentTextIndex + 1].text = note]
            /\ currentTextIndex' = currentTextIndex
  /\ yielded' = Yield(contentParts')
  /\ NextLine
  /\ UNCHANGED <<runs, error, transport, toolCallsIndex>>

\* case "thinking": break, then the yield
Thinking ==
  /\ At("thinking")
  /\ events' = Append(events, Parsed)
  /\ yielded' = Yield(contentParts)
  /\ NextLine
  /\ UNCHANGED <<runs, error, transport, turn>>

\* case "content", then the yield
Content ==
  /\ At("content")
  /\ events' = Append(events, Parsed)
  /\ LET r == OnContent(contentParts, currentTextIndex, Parsed) IN
       /\ contentParts' = r.parts
       /\ currentTextIndex' = r.cti
       /\ yielded' = Yield(r.parts)
  /\ NextLine
  /\ UNCHANGED <<runs, error, transport, toolCallsIndex>>

\* case "tool_calls", then the yield; when JSON.parse throws, the inner
\* catch takes over and the loop goes on without a yield.
ToolCalls ==
  /\ At("tool_calls")
  /\ events' = Append(events, Parsed)
  /\ LET r == OnToolCalls(contentParts, currentTextIndex, toolCallsIndex, Parsed) IN
       /\ contentParts' = r.parts
       /\ currentTextIndex' = r.cti
       /\ toolCallsIndex' = r.tci
       /\ yielded' = IF r.threw THEN yielded ELSE Yield(r.parts)
  /\ NextLine
  /\ UNCHANGED <<runs, error, transport>>

\* case "tool_start": break, then the yield
ToolStart ==
  /\ At("tool_start")
  /\ events' = Append(events, Parsed)
  /\ yielded' = Yield(contentParts)
  /\ NextLine
  /\ UNCHANGED <<runs, error, transport, turn>>

\* case "tool_result", then the yield
ToolResult ==
  /\ At("tool_result")
  /\ events' = Append(events, Parsed)
  /\ contentParts' = OnToolResult(contentParts, Parsed)
  /\ yielded' = Yield(contentParts')
  /\ NextLine
  /\ UNCHANGED <<runs, error, transport, currentTextIndex, toolCallsIndex>>

\* case "tool_error", then the yield
ToolError ==
  /\ At("tool_error")
  /\ events' = Append(events, Parsed)
  /\ LET r == OnToolError(contentParts, currentTextIndex, Parsed) IN
       /\ contentParts' = r.parts
       /\ currentTextIndex' = r.cti
       /\ yielded' = Yield(r.parts)
  /\ NextLine
  /\ UNCHANGED <<runs, error, transport, toolCallsIndex>>

\* case "error": throw new Error(...) inside the try of the loop body: the
\* inner catch takes it, and the loop goes on without a yield.
StreamError ==
  /\ At("error")
  /\ events' = Append(events, Parsed)
  /\ NextLine
  /\ UNCHANGED <<runs, error, transport, turn, yielded>>

\* case "done": return
Done ==
  /\ At("done")
  /\ events' = Append(events, Parsed)
  /\ pc' = "returned"
  /\ lines' = <<>>
  /\ UNCHANGED <<runs, error, transport, turn, yielded>>

\* A message of a type the switch has no case for: the yield alone.
NoCase ==
  /\ pc = "lines"
  /\ Parsed # Null
  /\ TypeOf(Parsed) \notin {"thinking", "content", "tool_calls", "tool_start",
                            "tool_result", "tool_error", "error", "done"}
  /\ events' = Append(events, Parsed)
  /\ yielded' = Yield(contentParts)
  /\ NextLine
  /\ UNCHANGED <<runs, error, transport, turn>>

------------------------------------------------------------------------------
(* Specifications *)

\* The cases of the switch every frame of the assembler's frames reaches.
Next ==
  \/ FetchOk
  \/ ReadFrames(AssemblerFrames, MaxFrames)
  \/ ReadDone
  \/ Thinking
  \/ Content
  \/ ToolCalls
  \/ ToolStart
  \/ ToolResult
  \/ ToolError
  \/ StreamError
  \/ Done

\* One turn, the transport delivering whole frames.
Spec == Init /\ [][Next]_vars

NextDecode ==
  \/ FetchOk
  \/ FetchFails
  \/ Abort
  \/ ReadFails
  \/ Send(DecodeFrames, MaxDecodeFrames)
  \/ ReadChunk
  \/ ReadDone
  \/ SkipLine
  \/ Content
  \/ NoCase
  \/ Done

\* One turn, the transport cutting the bytes of the stream anywhere.
SpecDecode == Init /\ [][NextDecode]_vars

NextLines ==
  \/ FetchOk
  \/ ReadFrames(LineFrames, MaxFrames)
  \/ ReadDone
  \/ SkipLine
  \/ Content
  \/ Done

\* One turn of lines that are frames and lines that are not, the transport
\* delivering whole lines.
SpecLines == Init /\ [][NextLines]_vars

NextEmpty ==
  \/ FetchOk
  \/ ReadFrames(EmptyFrames, MaxFrames)
  \/ ReadDone
  \/ Content
  \/ ToolCalls
  \/ ToolResult
  \/ ToolError

\* One turn of messages with and without their payload, the transport
\* delivering whole frames.
SpecEmpty == Init /\ [][NextEmpty]_vars

NextTail ==
  \/ FetchOk
  \/ ReadFrames(TailFrames, MaxFrames)
  \/ ReadDone
  \/ SkipLine
  \/ Content
  \/ Done

\* One turn of frames with and without their newline, the transport
\* delivering what the backend wrote as it is.
SpecTail == Init /\ [][NextTail]_vars

NextLive ==
  \/ FetchOk
  \/ ReadFrames(LiveFrames, MaxLiveFrames)
  \/ ReadDone
  \/ SkipLine
  \/ Content
  \/ Done
  \/ FetchFails
  \/ Abort
  \/ ReadFails

\* The fetch settles; a pending read resolves, with a chunk while the backend
\* has frames to write and with done when it has not; the consumer asks for
\* the next content after each yield, so the loop over the lines goes on.
\* The failures and the abort may come and need not.
Fairness ==
  /\ WF_vars(FetchOk)
  /\ WF_vars(ReadFrames(LiveFrames, MaxLiveFrames) \/ ReadDone)
  /\ WF_vars(SkipLine \/ Content \/ Done)

\* One turn that may fail and may be aborted, the transport delivering the
\* frames the backend writes and the consumer taking what is yielded.
SpecLive == Init /\ [][NextLive]_vars /\ Fairness

------------------------------------------------------------------------------
(* Claims *)

IsText(part) == part.type = "text"
IsToolCall(part) == part.type = "tool-call"
HasResult(part) == "result" \in DOMAIN part

\* The part keeps its kind and, when it is a tool call, its id, name, args
\* and argsText.
SameSegment(p, q) ==
  /\ p.type = q.type
  /\ IsToolCall(p) =>
       /\ p.toolCallId = q.toolCallId
       /\ p.toolName = q.toolName
       /\ p.args = q.args
       /\ p.argsText = q.argsText

\* C1: from one yielded snapshot to the next the list never gets shorter, and
\* every index of the earlier snapshot holds a segment of the same kind and,
\* for a tool call, of the same id, name, args and argsText.
C1_AppendOnly ==
  \A k \in 1..(Len(yielded) - 1) :
    /\ Len(yielded[k]) <= Len(yielded[k + 1])
    /\ \A i \in 1..Len(yielded[k]) : SameSegment(yielded[k][i], yielded[k + 1][i])

\* Three snapshots, the first with a tool call that has got a result since
\* and the last longer than the first.
C1_Witness ==
  /\ Len(yielded) >= 3
  /\ Len(yielded[3]) > Len(yielded[1])
  /\ \E i \in 1..Len(yielded[1]) :
       /\ IsToolCall(yielded[1][i])
       /\ ~HasResult(yielded[1][i])
       /\ HasResult(yielded[3][i])

\* C3: a text segment with a tool-call segment after it never changes again.
C3_ClosedTextNeverChanges ==
  [][\A i \in 1..Len(contentParts) :
       (/\ IsText(contentParts[i])
        /\ \E j \in (i + 1)..Len(contentParts) : IsToolCall(contentParts[j]))
       => /\ Len(contentParts') >= i
          /\ contentParts'[i] = contentParts[i]]_vars

\* C4: a result, once set, is never set again: a tool-call segment that has
\* a result keeps it.
C4_ResultSetOnce ==
  [][\A i \in 1..Len(contentParts) :
       (IsToolCall(contentParts[i]) /\ HasResult(contentParts[i]))
       => /\ Len(contentParts') >= i
          /\ HasResult(contentParts'[i])
          /\ contentParts'[i].result = contentParts[i].result]_vars

\* The indexes of the tool-call segments of the given name.
Named(parts, name) ==
  {i \in 1..Len(parts) : IsToolCall(parts[i]) /\ parts[i].toolName = name}

SingleChunkLines(bytes) == Front(Split(DecodeStream(<<>>, bytes).chars))

\* The messages that reach the switch for the given lines: those
\* parseSSEData gives, up to the first done message.
RECURSIVE Messages(_)
Messages(ls) ==
  IF ls = <<>> THEN <<>>
  ELSE LET m == parseSSEData(Head(ls)) IN
    IF m = Null THEN Messages(Tail(ls))
    ELSE IF TypeOf(m) = "done" THEN <<m>>
    ELSE <<m>> \o Messages(Tail(ls))

\* The switch as a function of the turn state and the message.
Switch(st, m) ==
  CASE TypeOf(m) = "content" ->
         LET r == OnContent(st.parts, st.cti, m) IN
           [parts |-> r.parts, cti |-> r.cti, tci |-> st.tci]
    [] TypeOf(m) = "tool_calls" ->
         LET r == OnToolCalls(st.parts, st.cti, st.tci, m) IN
           [parts |-> r.parts, cti |-> r.cti, tci |-> r.tci]
    [] TypeOf(m) = "tool_result" ->
         [st EXCEPT !.parts = OnToolResult(st.parts, m)]
    [] TypeOf(m) = "tool_error" ->
         LET r == OnToolError(st.parts, st.cti, m) IN
           [parts |-> r.parts, cti |-> r.cti, tci |-> st.tci]
    [] OTHER -> st

\* The turn state after the given messages, from the empty turn state.
RECURSIVE Assemble(_)
Assemble(ms) ==
  IF ms = <<>> THEN [parts |-> <<>>, cti |-> -1, tci |-> -1]
  ELSE Switch(Assemble(Front(ms)), Last(ms))

IsPrefix(s, t) == Len(s) <= Len(t) /\ SubSeq(t, 1, Len(s)) = s

\* C2: however the stream is cut into chunks, the messages that have reached
\* the switch are those of the stream received so far delivered as one chunk
\* (all of them once the lines of the last chunk are done with), and so are
\* the segments.
C2_ChunkBoundaryInvariance ==
  LET single == Messages(SingleChunkLines(received)) IN
    /\ IsPrefix(events, single)
    /\ pc # "lines" =>
         /\ events = single
         /\ contentParts = Assemble(single).parts

\* A chunk has ended inside a frame and inside a two-byte character, with a
\* message of an earlier frame through the switch and more bytes to come.
C2_Witness ==
  /\ pc = "read"
  /\ pending # <<>>
  /\ buffer # <<>>
  /\ events # <<>>
  /\ wire # <<>>

\* The message has a payload the switch acts on.
NonEmptyContent(m) == TypeOf(m) = "content" /\ Truthy(m, "text")
NonEmptyBatch(m) ==
  TypeOf(m) = "tool_calls" /\ "tool_calls" \in DOMAIN m /\ Len(m.tool_calls) > 0
NonEmptyError(m) == TypeOf(m) = "tool_error" /\ Truthy(m, "error")

\* The messages up to and with the last tool_calls or tool_error message.
RECURSIVE BeforeRun(_)
BeforeRun(ms) ==
  IF ms = <<>> \/ TypeOf(Last(ms)) \in {"tool_calls", "tool_error"} THEN ms
  ELSE BeforeRun(Front(ms))

\* The texts of the content messages after the last tool_calls or tool_error
\* message, in the order of arrival.
RECURSIVE Run(_)
Run(ms) ==
  IF ms = <<>> \/ TypeOf(Last(ms)) \in {"tool_calls", "tool_error"} THEN <<>>
  ELSE IF TypeOf(Last(ms)) = "content" THEN Append(Run(Front(ms)), Last(ms).text)
  ELSE Run(Front(ms))

\* C6, as stated: the content messages of a run have produced one text
\* segment, the last of the list, whose text is the concatenation of their
\* texts.
C6_RunIsOneSegment ==
  Run(events) # <<>> =>
    /\ contentParts # <<>>
    /\ Last(contentParts) = TextPart(Flatten(Run(events)))

\* C6, amended: a run with a non-empty text has added the concatenation of
\* its texts, in the order of arrival and with nothing between them, to one
\* text segment: a new last segment holding exactly the concatenation when
\* no text segment was open as the run began, else the segment that was
\* open, after the text it had; it has added no other segment.  A run of
\* empty texts has added no segment.
C6_RunAppendsToOneSegment ==
  LET texts == Flatten(Run(events))
      before == Assemble(BeforeRun(events))
  IN Run(events) # <<>> =>
       IF texts = <<>>
       THEN /\ Len(contentParts) = Len(before.parts)
            /\ currentTextIndex = before.cti
       ELSE IF before.cti = -1
       THEN /\ Len(contentParts) = Len(before.parts) + 1
            /\ Last(contentParts) = TextPart(texts)
            /\ currentTextIndex = Len(before.parts)
       ELSE /\ Len(contentParts) = Len(before.parts)
            /\ currentTextIndex = before.cti
            /\ contentParts[before.cti + 1] =
                 TextPart(before.parts[before.cti + 1].text \o texts)

\* A run of three content messages, one of them without a text, has made
\* the one segment "ab".
C6_Witness ==
  /\ Len(Run(events)) = 3
  /\ contentParts = <<TextPart(<<"a", "b">>)>>

\* No content message with a text has come since the last tool_calls message
\* with a batch, and there is such a tool_calls message.
RECURSIVE AfterBatch(_)
AfterBatch(ms) ==
  /\ ms # <<>>
  /\ ~NonEmptyContent(Last(ms))
  /\ NonEmptyBatch(Last(ms)) \/ AfterBatch(Front(ms))

\* C7: the first content message with a text after a tool_calls batch
\* appends a new text segment at the end of the list, and changes no segment
\* before the batch.
C7_ContentAfterBatchOpensSegment ==
  [][(At("content") /\ Truthy(Parsed, "text") /\ AfterBatch(events))
     => contentParts' = Append(contentParts, TextPart(Parsed.text))]_vars

\* The text is somewhere in the text of the segment.
Contains(text, s) ==
  \E k \in 0..(Len(text) - Len(s)) : SubSeq(text, k + 1, k + Len(s)) = s

\* C8: a tool_error message with an error appends one text segment holding
\* the error, whether or not a text segment is open, leaves the segments
\* there were as they are, and the loop goes on.
C8_ToolErrorAppendsNotice ==
  [][(At("tool_error") /\ Truthy(Parsed, "error"))
     => /\ Len(contentParts') = Len(contentParts) + 1
        /\ SubSeq(contentParts', 1, Len(contentParts)) = contentParts
        /\ IsText(Last(contentParts'))
        /\ Contains(Last(contentParts').text, Parsed.error)
        /\ lines' = Tail(lines)
        /\ pc' \in {"read", "lines"}]_vars

\* A tool error has come while a text segment was open, its notice is the
\* segment after it, and a later message has been through the switch.
C8_Witness ==
  /\ Len(events) = 3
  /\ NonEmptyContent(events[1])
  /\ NonEmptyError(events[2])
  /\ Len(contentParts) >= 2
  /\ contentParts[1] = TextPart(events[1].text)
  /\ IsText(contentParts[2])
  /\ Contains(contentParts[2].text, events[2].error)

\* C9: the content message with a text that comes next after a tool_error
\* message with an error appends its text to the notice, the last segment,
\* and adds no segment.
C9_ContentAfterToolErrorGoesToNotice ==
  [][(/\ At("content") /\ Truthy(Parsed, "text")
      /\ events # <<>> /\ NonEmptyError(Last(events)))
     => contentParts' =
          [contentParts EXCEPT ![Len(contentParts)].text = @ \o Parsed.text]]_vars

\* C10: an error message is the last message to reach the switch, and run
\* throws.
C10_StreamErrorEndsRun ==
  \A i \in 1..Len(events) :
    TypeOf(events[i]) = "error" => (i = Len(events) /\ pc = "thrown")

\* C11: a done message is the last message to reach the switch: run has
\* returned with no line left to visit, nothing was yielded for or after the
\* done message, and the snapshot yielded last is the final list of segments.
C11_DoneEndsRun ==
  \A i \in 1..Len(events) :
    TypeOf(events[i]) = "done" =>
      /\ i = Len(events)
      /\ pc = "returned"
      /\ lines = <<>>
      /\ error = Uncaught
      /\ IF yielded = <<>> THEN contentParts = <<>>
         ELSE Last(yielded) = contentParts

\* The loop is at a message other than an error and a done message.
AtEvent == pc = "lines" /\ Parsed # Null /\ TypeOf(Parsed) \notin {"error", "done"}

TransportCompletes == pc = "read" /\ pc' = "returned" /\ error' = Uncaught

\* C13, as stated: when the transport completes and no done message has
\* come, run yields one more snapshot of the list and returns.
C13_FinalSnapshotAlways ==
  [][TransportCompletes =>
       /\ yielded' = Append(yielded, contentParts)
       /\ contentParts' = contentParts]_vars

\* C13, amended: when the transport completes and no done message has come,
\* run yields one more snapshot of the list when the list is not empty and
\* none when it is empty, and returns without throwing.
C13_FinalSnapshotUnlessEmpty ==
  [][TransportCompletes =>
       /\ contentParts' = contentParts
       /\ yielded' = IF contentParts # <<>> THEN Append(yielded, contentParts)
                     ELSE yielded]_vars

\* Run has returned with no done message received, the snapshot of the last
\* message yielded once more.
C13_Witness ==
  /\ pc = "returned"
  /\ error = Uncaught
  /\ events # <<>>
  /\ TypeOf(Last(events)) # "done"
  /\ Len(yielded) >= 2
  /\ Last(yielded) = contentParts
  /\ yielded[Len(yielded) - 1] = contentParts

\* C14: when the abort signal fires, while fetch or while reader.read() is
\* pending, run returns: it does not throw, as it does for another error,
\* and it yields nothing once the abort error is caught.
C14_AbortEndsRunSilently ==
  [][error' = AbortError =>
       /\ pc' = "returned"
       /\ yielded' = yielded
       /\ contentParts' = contentParts]_vars

\* The signal has fired while a read was pending, after a snapshot was
\* yielded and with a part of a line in the buffer, and run has returned.
C14_Witness ==
  /\ error = AbortError
  /\ pc = "returned"
  /\ yielded # <<>>
  /\ buffer # <<>>

\* C15: when fetch rejects, the response is not OK or has no body, or
\* reader.read() rejects, and the error is no abort error, run throws the
\* error and yields nothing more; nothing was yielded when no message had
\* reached the switch.
C15_TransportFailureThrows ==
  [][(error' # Uncaught /\ error' # AbortError) =>
       /\ pc' = "thrown"
       /\ error' \in {NetworkError, ApiError, NoBodyError}
       /\ yielded' = yielded
       /\ events' = events
       /\ events = <<>> => yielded' = <<>>]_vars

\* A read has failed after a message was through the switch and a snapshot
\* was yielded, and run has thrown.
C15_Witness ==
  /\ pc = "thrown"
  /\ error = NetworkError
  /\ events # <<>>
  /\ yielded # <<>>

\* The line begins with "data: " and what follows is neither [DONE] nor a JSON
\* value.
Malformed(line) ==
  /\ StartsWith(line, DataPrefix)
  /\ Slice(Trim(line), Len(DataPrefix)) # DoneToken
  /\ JSONparse(Slice(Trim(line), Len(DataPrefix))) = SyntaxError

\* The loop leaves the line behind: no message, no change of the segments, no
\* snapshot, nothing thrown, and the next line or the next read is on.
LineDropped ==
  /\ lines' = Tail(lines)
  /\ pc' \in {"read", "lines"}
  /\ events' = events
  /\ turn' = turn
  /\ yielded' = yielded
  /\ error' = Uncaught

\* C16: a complete line "data: " with a payload that is no JSON value gives
\* no message, throws nothing, leaves the segments as they are, and the loop
\* goes on to the lines after it.
C16_MalformedFrameDropped ==
  [][(pc = "lines" /\ Malformed(Head(lines))) => LineDropped]_vars

\* The stream so far is a line with a malformed payload and a content line
\* after it, and the content line has made its message and its segment.
C16_Witness ==
  LET ls == SingleChunkLines(received) IN
    /\ pc = "read"
    /\ Len(ls) = 2
    /\ Malformed(ls[1])
    /\ events = <<parseSSEData(ls[2])>>
    /\ NonEmptyContent(events[1])
    /\ contentParts = <<TextPart(events[1].text)>>

\* C17, as stated: a complete line that does not begin with "data: " gives no
\* message and changes nothing.
C17_LineWithoutPrefixDropped ==
  [][(pc = "lines" /\ ~StartsWith(Head(lines), DataPrefix)) => LineDropped]_vars

\* C17, amended: a complete line that, with the white space at its ends
\* taken off, does not begin with "data: " gives no message and changes
\* nothing; a line with white space before the prefix gives the message of
\* the line without that white space.
C17_TrimmedLineWithoutPrefixDropped ==
  [][pc = "lines" =>
       LET line == Head(lines) IN
         /\ ~StartsWith(Trim(line), DataPrefix) => LineDropped
         /\ (/\ StartsWith(Trim(line), DataPrefix)
             /\ ~StartsWith(line, DataPrefix)
             /\ ~Malformed(TrimStart(line)))
            => events' = Append(events, parseSSEData(TrimStart(line)))]_vars

\* The stream so far is a blank line, a line with a character before the
\* prefix and a content line with a space before the prefix: the first two
\* have given nothing and the third its message and its segment.
C17_Witness ==
  LET ls == SingleChunkLines(received) IN
    /\ pc = "read"
    /\ Len(ls) = 3
    /\ ls[1] = <<>>
    /\ ls[2] # <<>> /\ Head(ls[2]) = "x"
    /\ ls[3] # <<>> /\ Head(ls[3]) = SP
    /\ Len(events) = 1
    /\ NonEmptyContent(events[1])
    /\ contentParts = <<TextPart(events[1].text)>>

\* C18: the complete line "data: [DONE]" gives the one message done, which
\* JSON.parse has no part in, and run returns on it: no other message, no
\* change of the segments and no snapshot come of the line.
C18_DoneLineIsOneDone ==
  [][(pc = "lines" /\ Head(lines) = DataPrefix \o DoneToken) =>
       /\ events' = Append(events, [type |-> "done"])
       /\ pc' = "returned"
       /\ lines' = <<>>
       /\ turn' = turn
       /\ yielded' = yielded]_vars

\* The line [DONE] has come after a content line, and its done message is the
\* last of two messages.
C18_Witness ==
  /\ pc = "returned"
  /\ Len(events) = 2
  /\ NonEmptyContent(events[1])
  /\ events[2] = [type |-> "done"]
  /\ Last(SingleChunkLines(received)) = DataPrefix \o DoneToken

\* The arguments of the tool call, or "{}" in their place, are a JSON value.
WellFormed(tc) == JSONparse(ArgumentsOrDefault(tc)) # SyntaxError

\* C19: a tool_calls message with a batch appends a tool-call segment for
\* every tool call of the batch, in order, also for one whose arguments are
\* absent or no JSON value, which gets the empty object for its args, and
\* clears currentTextIndex.
C19_BatchAppendedDespiteBadArguments ==
  [][(At("tool_calls") /\ NonEmptyBatch(Parsed)) =>
       LET calls == Parsed.tool_calls
           n == Len(contentParts)
       IN /\ Len(contentParts') = n + Len(calls)
          /\ \A k \in 1..Len(calls) :
               /\ IsToolCall(contentParts'[n + k])
               /\ contentParts'[n + k].toolCallId = calls[k].id
               /\ ("arguments" \notin DOMAIN calls[k].function \/ ~WellFormed(calls[k]))
                  => contentParts'[n + k].args = EmptyObject
          /\ currentTextIndex' = -1]_vars

\* C20: a tool_calls message with a batch of n tool calls whose arguments
\* are all JSON values makes the list n longer: the segments there were stay
\* as they are, and after them come n tool-call segments in the order of the
\* batch, each with the id and the name of its tool call and no result.
C20_BatchAppendsInOrder ==
  [][(/\ At("tool_calls") /\ NonEmptyBatch(Parsed)
      /\ \A k \in 1..Len(Parsed.tool_calls) : WellFormed(Parsed.tool_calls[k]))
     => LET calls == Parsed.tool_calls
            n == Len(contentParts)
        IN /\ Len(contentParts') = n + Len(calls)
           /\ SubSeq(contentParts', 1, n) = contentParts
           /\ \A k \in 1..Len(calls) :
                /\ IsToolCall(contentParts'[n + k])
                /\ contentParts'[n + k].toolCallId = calls[k].id
                /\ contentParts'[n + k].toolName = calls[k].function.name
                /\ ~HasResult(contentParts'[n + k])]_vars

\* A batch of two tool calls has come after a text: the list is the text and
\* the two tool-call segments, in the order of the batch and without results.
C20_Witness ==
  /\ Len(events) = 2
  /\ NonEmptyContent(events[1])
  /\ NonEmptyBatch(events[2])
  /\ Len(events[2].tool_calls) = 2
  /\ Len(contentParts) = 3
  /\ IsText(contentParts[1])
  /\ \A k \in 1..2 :
       /\ IsToolCall(contentParts[1 + k])
       /\ contentParts[1 + k].toolCallId = events[2].tool_calls[k].id
       /\ ~HasResult(contentParts[1 + k])

\* C21: a content message with a text either appends a new text segment at
\* the end of the list or appends its text to the last segment of the list:
\* the text never goes into a segment that has a segment after it.
C21_ContentGoesToLastSegment ==
  [][(At("content") /\ Truthy(Parsed, "text")) =>
       \/ contentParts' = Append(contentParts, TextPart(Parsed.text))
       \/ /\ contentParts # <<>>
          /\ currentTextIndex = Len(contentParts) - 1
          /\ IsText(Last(contentParts))
          /\ contentParts' =
               [contentParts EXCEPT ![Len(contentParts)].text = @ \o Parsed.text]]_vars

\* C22: a thinking message and a tool_start message leave the list of
\* segments and currentTextIndex (and toolCallsIndex) as they are.
C22_ThinkingAndToolStartChangeNothing ==
  [][(At("thinking") \/ At("tool_start")) =>
       /\ turn' = turn
       /\ events' = Append(events, Parsed)]_vars

\* A thinking message with a text and a tool_start message have come while
\* a text segment was open, and the segment and the marker are as the
\* content message left them.
C22_Witness ==
  /\ Len(events) = 3
  /\ NonEmptyContent(events[1])
  /\ TypeOf(events[2]) = "thinking" /\ Truthy(events[2], "text")
  /\ TypeOf(events[3]) = "tool_start"
  /\ contentParts = <<TextPart(events[1].text)>>
  /\ currentTextIndex = 0

\* C23: what a consumer reads through a snapshot it has kept is what the
\* snapshot held when it was yielded.
C23_RetainedSnapshotNeverChanges ==
  \A k \in 1..Len(yielded) : Retained(k) = yielded[k]

\* C27: currentTextIndex is -1 or the index of a text segment of the list.
C27_MarkerIsNoneOrTextSegment ==
  \/ currentTextIndex = -1
  \/ /\ InRange(contentParts, currentTextIndex)
     /\ IsText(contentParts[currentTextIndex + 1])

\* The marker is at a text segment that has tool-call segments before it
\* and after it: tool calls, a text, and tool calls that were not all
\* appended.
C27_Witness ==
  /\ currentTextIndex >= 0
  /\ currentTextIndex + 1 < Len(contentParts)
  /\ IsToolCall(Last(contentParts))
  /\ \E i \in 1..currentTextIndex : IsToolCall(contentParts[i])

\* The indexes at which the two lists differ.
Changed(old, new) == {i \in 1..Len(old) : new[i] # old[i]}

\* C30: a tool_result message leaves the number of segments, every text
\* segment and currentTextIndex as they are, changes at most one tool-call
\* segment and of that no more than the result, and changes nothing when no
\* tool-call segment has its tool name.
C30_ToolResultChangesOneResult ==
  [][At("tool_result") =>
       /\ Len(contentParts') = Len(contentParts)
       /\ currentTextIndex' = currentTextIndex
       /\ Cardinality(Changed(contentParts, contentParts')) <= 1
       /\ \A i \in Changed(contentParts, contentParts') :
            /\ IsToolCall(contentParts[i])
            /\ SameSegment(contentParts[i], contentParts'[i])
            /\ Truthy(Parsed, "tool_name") /\ contentParts[i].toolName = Parsed.tool_name
       /\ (Truthy(Parsed, "tool_name") /\ Named(contentParts, Parsed.tool_name) = {})
          => contentParts' = contentParts]_vars

\* A tool result has come after a text and a batch of two tool calls of its
\* name: the text and the second tool call are as they were and the first
\* tool call has the result.
C30_Witness ==
  /\ Len(events) = 3
  /\ NonEmptyContent(events[1])
  /\ NonEmptyBatch(events[2])
  /\ TypeOf(events[3]) = "tool_result"
  /\ Len(contentParts) = 3
  /\ contentParts[1] = TextPart(events[1].text)
  /\ HasResult(contentParts[2]) /\ contentParts[2].result = events[3].result
  /\ IsToolCall(contentParts[3]) /\ ~HasResult(contentParts[3])
  /\ currentTextIndex = -1

\* The characters the decoder has given so far.
Decoded == DecodeStream(<<>>, received).chars

\* C24: the buffer holds the characters received since the last newline, and
\* so no newline; while run reads and visits lines, the lines still to visit
\* are the last of the lines that have got their newline, and the messages
\* that have reached the switch are those of the lines visited, each once
\* and in order: none of them is of the line in the buffer.
C24_BufferHoldsUnterminatedLine ==
  LET all == Split(Decoded)
      complete == Front(all)
      visited == Len(complete) - Len(lines)
  IN /\ buffer = Last(all)
     /\ \A i \in 1..Len(buffer) : buffer[i] # NL
     /\ pc \in {"read", "lines"} =>
          /\ visited >= 0
          /\ lines = SubSeq(complete, visited + 1, Len(complete))
          /\ events = Messages(SubSeq(complete, 1, visited))

\* A content frame is in the buffer without its newline, after a message of
\* an earlier line and with the newline still to come: no message has come
\* of the frame.
C24_Witness ==
  /\ pc = "read"
  /\ buffer = DataPrefix \o ContentJson(<<"a">>)
  /\ wire = <<NL>>
  /\ Len(events) = 1
  /\ TypeOf(events[1]) = "ping"

\* C28: when the transport completes while the buffer is not empty, what the
\* buffer holds is not decoded: no message comes of it, the segments and the
\* marker stay as they are, and the last yield is of the list as it was.
C28_BufferedLineNeverDecoded ==
  [][(TransportCompletes /\ buffer # <<>>) =>
       /\ events' = events
       /\ turn' = turn
       /\ buffer' = buffer
       /\ yielded' \in {yielded, Append(yielded, contentParts)}]_vars

\* Run has returned with "data: [DONE]" in the buffer, after a content
\* message: no done message has reached the switch.
C28_Witness ==
  /\ pc = "returned"
  /\ error = Uncaught
  /\ buffer = DataPrefix \o DoneToken
  /\ Len(events) = 1
  /\ NonEmptyContent(events[1])
  /\ contentParts = <<TextPart(events[1].text)>>

\* The field of the message its case of the switch tests is missing or empty.
EmptyPayload(m) ==
  CASE TypeOf(m) = "content" -> ~Truthy(m, "text")
    [] TypeOf(m) = "tool_calls" -> ~NonEmptyBatch(m)
    [] TypeOf(m) = "tool_result" -> ~(Truthy(m, "tool_name") /\ Truthy(m, "result"))
    [] TypeOf(m) = "tool_error" -> ~Truthy(m, "error")
    [] OTHER -> FALSE

\* C29: a content message without a text, a tool_calls message without a
\* batch or with an empty one, a tool_result message without a tool name or
\* without a result and a tool_error message without an error leave the
\* list of segments, currentTextIndex and toolCallsIndex as they are.
C29_EmptyPayloadChangesNothing ==
  [][(pc = "lines" /\ Parsed # Null /\ EmptyPayload(Parsed)) =>
       /\ turn' = turn
       /\ events' = Append(events, Parsed)]_vars

\* A tool_calls message with an empty batch and a tool_error message without
\* an error have come while a text segment was open: the segment is the only
\* one and is still open.
C29_Witness ==
  /\ Len(events) = 3
  /\ NonEmptyContent(events[1])
  /\ TypeOf(events[2]) = "tool_calls" /\ "tool_calls" \in DOMAIN events[2]
  /\ EmptyPayload(events[2])
  /\ TypeOf(events[3]) = "tool_error" /\ EmptyPayload(events[3])
  /\ contentParts = <<TextPart(events[1].text)>>
  /\ currentTextIndex = 0
  /\ toolCallsIndex = -1

\* Run has come to its end.
Terminated == pc \in {"returned", "thrown"}

\* C26: when the transport delivers what the backend wrote and then
\* completes, or fails, or the signal fires, run comes to its end and stays
\* there; no more messages reach the switch than the lines received give.
C26_RunTerminates ==
  /\ <>[]Terminated
  /\ [](Len(events) <= Len(Messages(Front(Split(Decoded)))))

\* Run has returned on the completion of the transport, after all the frames
\* the backend may write were delivered and a message reached the switch.
C26_Witness ==
  /\ pc = "returned"
  /\ error = Uncaught
  /\ sent = MaxLiveFrames
  /\ wire = <<>>
  /\ events # <<>>
  /\ TypeOf(Last(events)) # "done"

------------------------------------------------------------------------------
(* Two calls of run of one adapter *)

\* The frames the two calls read: content, a batch of tool calls, a content
\* frame without its newline, and [DONE].
RunFrames ==
  {DataLine(ContentJson(<<"a">>)),
   DataLine(Obj("tool_calls:2,3")),
   DataPrefix \o ContentJson(<<"b">>),
   DataLine(DoneToken)}

\* The locals declared in createModelAdapter, outside run: one set of them
\* for all the calls.
ScopeOfAdapter(i) == 1

\* Where the locals of the i-th call of run live: they are declared inside
\* run, so every call has its own.
Scope(i) == i

\* The for loop over the lines of a chunk as a function of the locals: the
\* locals it leaves, the contents it yields and whether it returns.
RECURSIVE RunLines(_, _, _)
RunLines(loc, ls, ys) ==
  IF ls = <<>> THEN [loc |-> loc, yields |-> ys, returned |-> FALSE]
  ELSE LET m == parseSSEData(Head(ls)) IN
    IF m = Null THEN RunLines(loc, Tail(ls), ys)
    ELSE IF TypeOf(m) = "done" THEN [loc |-> loc, yields |-> ys, returned |-> TRUE]
    ELSE IF TypeOf(m) = "error" THEN RunLines(loc, Tail(ls), ys)
    ELSE LET st == Switch([parts |-> loc.contentParts,
                           cti |-> loc.currentTextIndex,
                           tci |-> loc.toolCallsIndex], m)
             threw == /\ TypeOf(m) = "tool_calls"
                      /\ OnToolCalls(loc.contentParts, loc.currentTextIndex,
                                     loc.toolCallsIndex, m).threw
         IN RunLines([loc EXCEPT !.contentParts = st.parts,
                                 !.currentTextIndex = st.cti,
                                 !.toolCallsIndex = st.tci],
                     Tail(ls),
                     IF threw \/ st.parts = <<>> THEN ys ELSE Append(ys, st.parts))

\* The body of the while loop for one chunk, as a function of the locals.
RunChunk(loc, value) ==
  LET c == Chunked(loc.pending, loc.buffer, value) IN
    RunLines([loc EXCEPT !.pending = c.pending, !.buffer = c.buffer], c.lines, <<>>)

\* The fetch of the i-th call resolves and the call declares its locals.
TwoFetch(i) ==
  /\ runs.out[i].pc = "fetch"
  /\ runs' = [runs EXCEPT !.out[i].pc = "read", !.locals[Scope(i)] = FreshLocals]
  /\ UNCHANGED oneRun

\* reader.read() of the i-th call resolves with a chunk of one frame, and the
\* call runs up to its next yield, read or return.
TwoRead(i) ==
  /\ runs.out[i].pc = "read"
  /\ Len(runs.out[i].chunks) < MaxRunChunks
  /\ \E f \in RunFrames :
       LET r == RunChunk(runs.locals[Scope(i)], f) IN
         runs' = [runs EXCEPT
                    !.locals[Scope(i)] = r.loc,
                    !.out[i].chunks = Append(@, f),
                    !.out[i].yielded = @ \o r.yields,
                    !.out[i].pc = IF r.returned THEN "returned" ELSE "read"]
  /\ UNCHANGED oneRun

\* reader.read() of the i-th call resolves with done: the final yield, then
\* the call returns.
TwoDone(i) ==
  /\ runs.out[i].pc = "read"
  /\ LET parts == runs.locals[Scope(i)].contentParts IN
       runs' = [runs EXCEPT
                  !.out[i].pc = "returned",
                  !.out[i].yielded = IF Len(parts) > 0 THEN Append(@, parts) ELSE @]
  /\ UNCHANGED oneRun

NextTwo ==
  \/ \E i \in RunIds : TwoFetch(i)
  \/ \E i \in RunIds : TwoRead(i)
  \/ \E i \in RunIds : TwoDone(i)

\* Two calls of run of one adapter, each going on when its fetch or its read
\* resolves, in any order.
SpecTwo == Init /\ [][NextTwo]_vars

\* What a call of run that is alone has done when it has read the chunks:
\* its locals, the contents it has yielded and whether it has returned.
RECURSIVE Alone(_)
Alone(chunks) ==
  IF chunks = <<>> THEN [loc |-> FreshLocals, yields |-> <<>>, returned |-> FALSE]
  ELSE LET a == Alone(Front(chunks))
           r == RunChunk(a.loc, Last(chunks))
       IN [loc |-> r.loc, yields |-> a.yields \o r.yields, returned |-> r.returned]

\* C25: of two calls of run that go on in any order, each has yielded what
\* a call that is alone yields for the chunks it has read, and its segments,
\* its marker and its buffer are those of the call that is alone.
C25_RunsAreConfined ==
  \A i \in RunIds :
    LET o == runs.out[i]
        a == Alone(o.chunks)
    IN CASE o.pc = "fetch" -> o.yielded = <<>>
         [] o.pc = "read" ->
              /\ ~a.returned
              /\ o.yielded = a.yields
              /\ runs.locals[Scope(i)] = a.loc
         [] o.pc = "returned" ->
              /\ runs.locals[Scope(i)] = a.loc
              /\ o.yielded =
                   IF a.returned \/ a.loc.contentParts = <<>> THEN a.yields
                   ELSE Append(a.yields, a.loc.contentParts)

\* Both calls have read two chunks and yielded; the first has a text
\* segment and a part of a line in its buffer, the second tool-call segments
\* and an empty buffer.
C25_Witness ==
  /\ \A i \in RunIds : Len(runs.out[i].chunks) = 2 /\ runs.out[i].yielded # <<>>
  /\ runs.locals[1].buffer # <<>>
  /\ runs.locals[2].buffer = <<>>
  /\ Len(runs.locals[1].contentParts) = 1
  /\ Len(runs.locals[2].contentParts) = 3
  /\ runs.out[1].pc = "read"
  /\ runs.out[2].pc = "returned"

====
